---- MODULE Spec2Model ----
(***************************************************************************)
(* Model of scripts/update_stats.py and scripts/visualize.py.              *)
(*                                                                         *)
(* Text is a sequence of characters; a character is a one-element string,  *)
(* and a character outside printable ASCII (or one that a TLA+ string      *)
(* cannot hold) is written by its Unicode code point:                      *)
(*   U000A newline   U0009 tab      U005C backslash   U0060 backtick       *)
(*   U5B9F U9A13  (title label)     U65E5 U4ED8  (date label)              *)
(*   U8A18 U9332 U8005 (recorder)   U30E2 U30C7 U30EB (model label)        *)
(*   U5BFE U8C61 (target label)     U8A55 U4FA1 (rating label)             *)
(*   U30BF U30B0 (tags label)       U4E0D U660E ("unknown")                *)
(*   U25CE exceeded  U25CB met  U3007 legacy met  U25B3 below  U274C failed*)
(***************************************************************************)
EXTENDS Integers, Sequences, FiniteSets, TLC

VARIABLES
    fs,           \* the input directory: file name -> "absent" | "unreadable" | text
    imagesDir,    \* IMAGES_DIR: "absent" | "old" | "new"
    timelinePng,  \* images/timeline.png: "absent" | "old" | "new"
    modelPng,     \* images/model_comparison.png
    tagPng,       \* images/tag_cloud.png
    statsMd,      \* Stats.md: "absent" | "old" | "new"
    pc,           \* position of the running script
    experiments,  \* the list collect_experiments builds / main holds
    log,          \* names of the files collect_experiments warned about
    stats,        \* the dictionary calculate_stats returned, or NoStats
    chartRates,   \* success_rates of generate_model_comparison_chart
    reportRows,   \* the per-model rows of generate_stats_md
    data,         \* visualize.py: the list parse_experiments returned
    plotted,      \* visualize.py: cumulative_success of plot_timeline
    doc,          \* the document handed to parse_experiment, by its lines
    stem,         \* file_path.stem handed to parse_experiment
    record        \* the dictionary parse_experiment returned, or NoRecord

vars == <<fs, imagesDir, timelinePng, modelPng, tagPng, statsMd, pc, experiments,
          log, stats, chartRates, reportRows, data, plotted, doc, stem, record>>

(***************************************************************************)
(* Characters and strings                                                  *)
(***************************************************************************)
NL  == "U000A"
TAB == "U0009"
BSL == "U005C"
BT  == "U0060"

EXCEEDED == "U25CE"
MET      == "U25CB"
LEGACY   == "U3007"
BELOW    == "U25B3"
FAILED   == "U274C"

\* "不明", the default of the .get calls
UNKNOWN == <<"U4E0D", "U660E">>

\* str.strip() with no argument strips whitespace; of the whitespace characters
\* the texts of this model hold the space, the tab and the newline
IsSpace(c) == c \in {" ", TAB, NL}

RECURSIVE LStrip(_)
LStrip(s) == IF s # <<>> /\ IsSpace(Head(s)) THEN LStrip(Tail(s)) ELSE s

RECURSIVE RStrip(_)
RStrip(s) ==
    IF s # <<>> /\ IsSpace(s[Len(s)]) THEN RStrip(SubSeq(s, 1, Len(s) - 1)) ELSE s

Strip(s) == RStrip(LStrip(s))

\* the literal lit occurs in s at position i
MatchAt(s, i, lit) ==
    /\ i >= 1
    /\ i + Len(lit) - 1 <= Len(s)
    /\ \A k \in 1..Len(lit) : s[i + k - 1] = lit[k]

\* the index of the first newline of s at or after i, Len(s) + 1 if none:
\* where a "." of a regular expression stops
LineEnd(s, i) ==
    IF \E j \in i..Len(s) : s[j] = NL
    THEN CHOOSE j \in i..Len(s) : s[j] = NL /\ \A k \in i..(j - 1) : s[k] # NL
    ELSE Len(s) + 1

Min(S) == CHOOSE x \in S : \A y \in S : x <= y

NoMatch == [found |-> FALSE]

\* re.search(lit + r'(.+)', s): the leftmost place where lit is followed by at
\* least one character that is not a newline; group(1) runs to the end of the line
RestOfLineSearch(s, lit) ==
    LET at == {i \in 1..Len(s) :
                  /\ MatchAt(s, i, lit)
                  /\ i + Len(lit) <= Len(s)
                  /\ s[i + Len(lit)] # NL}
    IN  IF at = {} THEN NoMatch
        ELSE LET i == Min(at)
                 g == i + Len(lit)
             IN  [found |-> TRUE, group |-> SubSeq(s, g, LineEnd(s, g) - 1)]

(***************************************************************************)
(* update_stats.py: parse_experiment                                       *)
(***************************************************************************)
TitleLabel    == <<"#", " ", "U5B9F", "U9A13", " ">>
DateLabel     == <<"-", " ", "U65E5", "U4ED8", ":", " ">>
RecorderLabel == <<"-", " ", "U8A18", "U9332", "U8005", ":", " ">>
ModelLabel    == <<"-", " ", "U30E2", "U30C7", "U30EB", ":", " ">>
TargetLabel   == <<"-", " ", "U5BFE", "U8C61", ":", " ">>
RatingLabel   == <<"*", "*", "U8A55", "U4FA1", ":", " ">>
TagsLabel     == <<"*", "*", "U30BF", "U30B0", ":", "*", "*">>
Bold          == <<"*", "*">>

\* the character class [◎○〇△❌] of the rating pattern
RatingClass == {EXCEEDED, MET, LEGACY, BELOW, FAILED}

\* re.search(r'# 実験 (.+?):', content): leftmost start, then the shortest
\* non-empty run without a newline that a colon follows
TitleSearch(s) ==
    LET L == Len(TitleLabel)
        Ends(i) == {j \in (i + L + 1)..Len(s) :
                       /\ s[j] = ":"
                       /\ \A k \in (i + L)..(j - 1) : s[k] # NL}
        at == {i \in 1..Len(s) : MatchAt(s, i, TitleLabel) /\ Ends(i) # {}}
    IN  IF at = {} THEN NoMatch
        ELSE LET i == Min(at)
             IN  [found |-> TRUE, group |-> SubSeq(s, i + L, Min(Ends(i)) - 1)]

\* re.search(r'\*\*評価: ([◎○〇△❌])\*\*', content)
RatingSearch(s) ==
    LET L == Len(RatingLabel)
        at == {i \in 1..Len(s) :
                  /\ MatchAt(s, i, RatingLabel)
                  /\ i + L <= Len(s)
                  /\ s[i + L] \in RatingClass
                  /\ MatchAt(s, i + L + 1, Bold)}
    IN  IF at = {} THEN NoMatch
        ELSE [found |-> TRUE, group |-> <<s[Min(at) + L]>>]

\* the rating stored as matched
KeepRating(r) == r

\* rating.replace('〇', '○')
NormalizeRating(r) == [k \in 1..Len(r) |-> IF r[k] = LEGACY THEN MET ELSE r[k]]

\* re.search(r'\*\*タグ:\*\*.*', content): group(0) is the marker and the rest
\* of its line
TagsSearch(s) ==
    LET at == {i \in 1..Len(s) : MatchAt(s, i, TagsLabel)}
    IN  IF at = {} THEN NoMatch
        ELSE LET i == Min(at)
             IN  [found |-> TRUE,
                  group |-> SubSeq(s, i, LineEnd(s, i + Len(TagsLabel)) - 1)]

\* the end of the maximal run of [^`\\] that starts at g
RunEnd(t, g) ==
    IF \E j \in g..Len(t) : t[j] \in {BT, BSL}
    THEN Min({j \in g..Len(t) : t[j] \in {BT, BSL}})
    ELSE Len(t) + 1

\* a closing part that takes no backslash
TagCloseBare(t, e) == IF e <= Len(t) /\ t[e] = BT THEN e ELSE 0

\* closing part \\?` of the tag pattern at position e: the index of the closing
\* backtick, 0 if there is none
TagClose(t, e) ==
    IF e <= Len(t) /\ t[e] = BT THEN e
    ELSE IF e + 1 <= Len(t) /\ t[e] = BSL /\ t[e + 1] = BT THEN e + 1
    ELSE 0

\* opening part \\?` of the tag pattern at position p: the index where the
\* token starts, 0 if there is none
TagOpen(t, p) ==
    IF p <= Len(t) /\ t[p] = BT THEN p + 1
    ELSE IF p + 1 <= Len(t) /\ t[p] = BSL /\ t[p + 1] = BT THEN p + 2
    ELSE 0

\* one attempt of r'\\?`([^`\\]+)\\?`' at position p
TagMatchAt(t, p) ==
    LET g == TagOpen(t, p)
        e == RunEnd(t, g)
        c == TagClose(t, e)
    IN  IF g # 0 /\ e > g /\ c # 0
        THEN [found |-> TRUE, group |-> SubSeq(t, g, e - 1), last |-> c]
        ELSE NoMatch

\* re.findall(r'\\?`([^`\\]+)\\?`', tags_text) scanning from position p:
\* matches do not overlap, the scan resumes after the last character of a match
RECURSIVE FindAllTags(_, _)
FindAllTags(t, p) ==
    IF p > Len(t) THEN <<>>
    ELSE LET m == TagMatchAt(t, p)
         IN  IF m.found THEN <<m.group>> \o FindAllTags(t, m.last + 1)
             ELSE FindAllTags(t, p + 1)

\* dict.get(key, default)
Get(d, key, default) == IF key \in DOMAIN d THEN d[key] ELSE default

\* an id taken from the title whatever it holds
ExperimentIdAnyTitle(text, fileStem) ==
    LET m == TitleSearch(text)
    IN  IF m.found /\ Strip(m.group) # <<>> THEN Strip(m.group) ELSE fileStem

\* the id parse_experiment stores
ExperimentId(text, fileStem) ==
    LET m == TitleSearch(text)
    IN  IF m.found /\ Strip(m.group) # <<>> /\ Strip(m.group) # <<"I", "D">>
        THEN Strip(m.group)
        ELSE fileStem

\* parse_experiment on the decoded text of a file whose stem is fileStem: the
\* dictionary data, as a function from its keys
ParseExperiment(text, fileStem) ==
    LET date     == RestOfLineSearch(text, DateLabel)
        recorder == RestOfLineSearch(text, RecorderLabel)
        model    == RestOfLineSearch(text, ModelLabel)
        target   == RestOfLineSearch(text, TargetLabel)
        rating   == RatingSearch(text)
        tags     == TagsSearch(text)
        keys     == {"id", "tags"}
                    \cup (IF date.found THEN {"date"} ELSE {})
                    \cup (IF recorder.found THEN {"recorder"} ELSE {})
                    \cup (IF model.found THEN {"model"} ELSE {})
                    \cup (IF target.found THEN {"target"} ELSE {})
                    \cup (IF rating.found THEN {"rating"} ELSE {})
    IN  [k \in keys |->
            CASE k = "id"       -> ExperimentId(text, fileStem)
              [] k = "date"     -> Strip(date.group)
              [] k = "recorder" -> Strip(recorder.group)
              [] k = "model"    -> Strip(model.group)
              [] k = "target"   -> Strip(target.group)
              [] k = "rating"   -> NormalizeRating(Strip(rating.group))
              [] k = "tags"     -> IF tags.found THEN FindAllTags(tags.group, 1)
                                   ELSE <<>>]

NoRecord == [none |-> TRUE]

(***************************************************************************)
(* Documents, written line by line                                         *)
(***************************************************************************)
MaxLines == 3
MaxTags  == 2

SeqsUpTo(V, n) == UNION {[1..k -> V] : k \in 0..n}

RECURSIVE Concat(_)
Concat(ss) == IF ss = <<>> THEN <<>> ELSE Head(ss) \o Concat(Tail(ss))

Spaces(n) == [k \in 1..n |-> " "]

Line(kind, pad, val) == [kind |-> kind, pad |-> pad, val |-> val]

\* the lines a document is written from: title lines "# 実験 <id>: t" (the id
\* padded by pad spaces on both sides), "- モデル: <value>" lines, bolded rating
\* markers "**評価: <glyph>**" and lines of plain text
TitleLines  == {Line("title", 0, <<"0", "0", "7">>), Line("title", 1, <<"I", "D">>),
                Line("title", 1, <<>>), Line("title", 0, <<>>)}
RatingLines == {Line("rating", 0, <<g>>) : g \in RatingClass \cup {"X"}}
ModelLines  == {Line("model", 0, <<"A">>)}
TextLines   == {Line("text", 0, <<"a">>)}
LineVocab   == TitleLines \cup RatingLines \cup ModelLines \cup TextLines

LineText(l) ==
    CASE l.kind = "title"  ->
             TitleLabel \o Spaces(l.pad) \o l.val \o Spaces(l.pad) \o <<":", " ", "t", NL>>
      [] l.kind = "rating" -> RatingLabel \o l.val \o Bold \o <<NL>>
      [] l.kind = "model"  -> ModelLabel \o l.val \o <<NL>>
      [] l.kind = "date"   -> DateLabel \o l.val \o <<NL>>
      [] l.kind = "code"   -> <<BT>> \o l.val \o <<BT, NL>>
      [] OTHER             -> l.val \o <<NL>>

\* the four ways a tag is written between backticks
Forms == {"plain", "left", "right", "both"}

TagText(form, tok) ==
    (IF form \in {"left", "both"} THEN <<BSL>> ELSE <<>>) \o <<BT>> \o tok
    \o (IF form \in {"right", "both"} THEN <<BSL>> ELSE <<>>) \o <<BT>>

\* one tag of a tag line: the text before it, then the token in one of the forms
TagVocab ==
    [sep : {<<>>, <<",", " ">>}, form : Forms, tok : {<<"x">>, <<"a", "-", "b">>}]

TagLineText(items) ==
    TagsLabel \o Concat([k \in 1..Len(items) |->
                            items[k].sep \o TagText(items[k].form, items[k].tok)])

\* a document: lines, then possibly a tag line, then further lines
Doc(pre, tagged, items, post) ==
    [pre |-> pre, tagged |-> tagged, items |-> items, post |-> post]

Text(d) ==
    Concat([k \in 1..Len(d.pre) |-> LineText(d.pre[k])])
    \o (IF d.tagged THEN TagLineText(d.items) \o <<NL>> ELSE <<>>)
    \o Concat([k \in 1..Len(d.post) |-> LineText(d.post[k])])

PlainDocs  == {Doc(pre, FALSE, <<>>, <<>>) : pre \in SeqsUpTo(LineVocab, MaxLines)}
TaggedDocs == {Doc(pre, TRUE, items, post) :
                  pre \in {<<>>, <<Line("text", 0, <<"a">>)>>},
                  items \in SeqsUpTo(TagVocab, MaxTags),
                  post \in {<<>>, <<Line("code", 0, <<"z">>)>>}}

(***************************************************************************)
(* The input directory                                                     *)
(***************************************************************************)
MaxFiles == 3

Str001md == <<"0", "0", "1", ".", "m", "d">>
Str002md == <<"0", "0", "2", ".", "m", "d">>
Str10md  == <<"1", "0", ".", "m", "d">>
Str9md   == <<"9", ".", "m", "d">>
StrRmd   == <<"R", ".", "m", "d">>

\* the file names a directory may hold: names the pattern "[0-9]*.md" takes,
\* and one it does not take
DigitNames == <<Str002md, Str10md, Str001md, Str9md>>
Names      == {DigitNames[k] : k \in 1..MaxFiles} \cup {StrRmd}

Digits == {"0", "1", "2", "3", "4", "5", "6", "7", "8", "9"}

\* code points of the characters of file names
Ord(c) ==
    CASE c = "." -> 46
      [] c \in Digits -> 48 + (CHOOSE n \in 0..9 : <<"0", "1", "2", "3", "4", "5",
                                                     "6", "7", "8", "9">>[n + 1] = c)
      [] c = "-" -> 45
      [] c = "R" -> 82
      [] c = "d" -> 100
      [] c = "m" -> 109

\* a < b for strings, as Python compares them
RECURSIVE StrLess(_, _)
StrLess(a, b) ==
    IF b = <<>> THEN FALSE
    ELSE IF a = <<>> THEN TRUE
    ELSE IF Head(a) = Head(b) THEN StrLess(Tail(a), Tail(b))
    ELSE Ord(Head(a)) < Ord(Head(b))

\* sorted(...) of a set of names
RECURSIVE Sorted(_)
Sorted(S) ==
    IF S = {} THEN <<>>
    ELSE LET m == CHOOSE x \in S : \A y \in S \ {x} : StrLess(x, y)
         IN  <<m>> \o Sorted(S \ {m})

\* Path.glob("[0-9]*.md") on one name
GlobDigitMd(name) ==
    /\ Len(name) >= 4
    /\ name[1] \in Digits
    /\ SubSeq(name, Len(name) - 2, Len(name)) = <<".", "m", "d">>

\* Path.stem: the name without its last suffix
Stem(name) ==
    LET dots == {i \in 2..Len(name) : name[i] = "."}
    IN  IF dots = {} \/ name[Len(name)] = "." THEN name
        ELSE SubSeq(name, 1, (CHOOSE i \in dots : \A j \in dots : j <= i) - 1)

TagItem(sep, form, tok) == [sep |-> sep, form |-> form, tok |-> tok]

Date(y, m, d) == <<"2", "0", "2", y, "-", "0", m, "-", "0", d>>

\* the documents the files of a directory hold
DocA1 == Doc(<<Line("date", 0, Date("5", "1", "2")), Line("model", 0, <<"A">>),
               Line("rating", 0, <<EXCEEDED>>)>>,
             TRUE, <<TagItem(<<" ">>, "plain", <<"x">>),
                     TagItem(<<" ">>, "both", <<"y">>)>>, <<>>)
DocA2 == Doc(<<Line("title", 0, <<"7">>), Line("date", 0, Date("5", "1", "1")),
               Line("model", 0, <<"A">>), Line("rating", 0, <<FAILED>>)>>,
             TRUE, <<TagItem(<<" ">>, "left", <<"y">>),
                     TagItem(<<",">>, "plain", <<"y">>)>>, <<>>)
DocB3 == Doc(<<Line("date", 0, Date("5", "1", "2")), Line("model", 0, <<"B">>),
               Line("rating", 0, <<LEGACY>>)>>, FALSE, <<>>, <<>>)
DocBare == Doc(<<Line("text", 0, <<"a">>)>>, FALSE, <<>>, <<>>)
DocBadDate == Doc(<<Line("date", 0, Date("5", "2", "0")), Line("model", 0, <<"B">>),
                    Line("rating", 0, <<MET>>)>>, FALSE, <<>>, <<>>)
PoolDocs == {DocA1, DocA2, DocB3, DocBare, DocBadDate}

EmptyDoc == Doc(<<>>, FALSE, <<>>, <<>>)

File(state, d) == [state |-> state, doc |-> d]
FileStates ==
    {File("absent", EmptyDoc), File("unreadable", EmptyDoc)}
    \cup {File("ok", d) : d \in PoolDocs}

\* directories: each name the pattern takes is absent, unreadable (open or
\* decoding fails) or holds a document; the other name holds a document
Directories ==
    {f \in [Names -> FileStates] : f[StrRmd] = File("ok", DocA1)}

(***************************************************************************)
(* update_stats.py: collect_experiments                                    *)
(***************************************************************************)
\* the loop without the try: the first failure ends the collection
RECURSIVE CollectLoopAbort(_, _)
CollectLoopAbort(dir, files) ==
    IF files = <<>> THEN [experiments |-> <<>>, log |-> <<>>]
    ELSE LET f    == Head(files)
             rest == CollectLoopAbort(dir, Tail(files))
         IN  IF dir[f].state = "ok"
             THEN [experiments |->
                       <<ParseExperiment(Text(dir[f].doc), Stem(f))>> \o rest.experiments,
                   log |-> rest.log]
             ELSE [experiments |-> <<>>, log |-> <<f>>]

\* the loop of collect_experiments over the sorted names: a file whose
\* parse_experiment raises is reported and skipped
RECURSIVE CollectLoop(_, _)
CollectLoop(dir, files) ==
    IF files = <<>> THEN [experiments |-> <<>>, log |-> <<>>]
    ELSE LET f    == Head(files)
             rest == CollectLoop(dir, Tail(files))
         IN  IF dir[f].state = "ok"
             THEN [experiments |->
                       <<ParseExperiment(Text(dir[f].doc), Stem(f))>> \o rest.experiments,
                   log |-> rest.log]
             ELSE [experiments |-> rest.experiments, log |-> <<f>> \o rest.log]

CollectExperiments(dir) ==
    CollectLoop(dir, Sorted({n \in DOMAIN dir : dir[n].state # "absent" /\ GlobDigitMd(n)}))

(***************************************************************************)
(* update_stats.py: calculate_stats                                        *)
(***************************************************************************)
\* a Counter that records a key without counting its repeats
CounterAddOnce(c, key) == IF key \in DOMAIN c THEN c ELSE c @@ (key :> 1)

\* Counter: c[key] += 1
CounterAdd(c, key) ==
    IF key \in DOMAIN c THEN [c EXCEPT ![key] = @ + 1] ELSE c @@ (key :> 1)

\* Counter.get(key, 0)
Count(c, key) == IF key \in DOMAIN c THEN c[key] ELSE 0

\* Counter(exp.get("rating", "不明") for exp in experiments)
RECURSIVE RatingCounts(_)
RatingCounts(exps) ==
    IF exps = <<>> THEN <<>>
    ELSE CounterAdd(RatingCounts(SubSeq(exps, 1, Len(exps) - 1)),
                    Get(exps[Len(exps)], "rating", UNKNOWN))

\* sum(ratings.get(r, 0) for r in ["◎", "○"])
SuccessCount(ratings) == Count(ratings, <<EXCEEDED>>) + Count(ratings, <<MET>>)

\* the rate without the guard on total
RateUnguarded(success, total) == [num |-> success * 100, den |-> total]

\* (success / total * 100) if total > 0 else 0, as the exact fraction num/den
Rate(success, total) ==
    IF total > 0 THEN [num |-> success * 100, den |-> total]
    ELSE [num |-> 0, den |-> 1]

\* the loop over experiments that fills model_stats
RECURSIVE ModelStats(_)
ModelStats(exps) ==
    IF exps = <<>> THEN <<>>
    ELSE LET ms     == ModelStats(SubSeq(exps, 1, Len(exps) - 1))
             exp    == exps[Len(exps)]
             model  == Get(exp, "model", UNKNOWN)
             rating == Get(exp, "rating", UNKNOWN)
             old    == IF model \in DOMAIN ms THEN ms[model]
                       ELSE [total |-> 0, ratings |-> <<>>]
             new    == [total |-> old.total + 1,
                        ratings |-> CounterAdd(old.ratings, rating)]
         IN  IF model \in DOMAIN ms THEN [ms EXCEPT ![model] = new]
             ELSE ms @@ (model :> new)

\* the inner loop, appending an id to a tag's list once per record only
RECURSIVE TagLoopDedup(_, _, _)
TagLoopDedup(acc, tags, id) ==
    IF tags = <<>> THEN acc
    ELSE LET tag == Head(tags)
             refs == IF tag \in DOMAIN acc.tag_experiments
                     THEN IF acc.tag_experiments[tag][Len(acc.tag_experiments[tag])] = id
                          THEN acc.tag_experiments
                          ELSE [acc.tag_experiments EXCEPT ![tag] = Append(@, id)]
                     ELSE acc.tag_experiments @@ (tag :> <<id>>)
         IN  TagLoopDedup([tag_counts |-> CounterAdd(acc.tag_counts, tag),
                           tag_experiments |-> refs], Tail(tags), id)

\* the inner loop over the tags of one experiment
RECURSIVE TagLoop(_, _, _)
TagLoop(acc, tags, id) ==
    IF tags = <<>> THEN acc
    ELSE LET tag == Head(tags)
             refs == IF tag \in DOMAIN acc.tag_experiments
                     THEN [acc.tag_experiments EXCEPT ![tag] = Append(@, id)]
                     ELSE acc.tag_experiments @@ (tag :> <<id>>)
         IN  TagLoop([tag_counts |-> CounterAdd(acc.tag_counts, tag),
                      tag_experiments |-> refs], Tail(tags), id)

\* the loop over experiments that fills tag_counts and tag_experiments
RECURSIVE TagStats(_)
TagStats(exps) ==
    IF exps = <<>> THEN [tag_counts |-> <<>>, tag_experiments |-> <<>>]
    ELSE LET exp == exps[Len(exps)]
         IN  TagLoop(TagStats(SubSeq(exps, 1, Len(exps) - 1)),
                     Get(exp, "tags", <<>>), Get(exp, "id", UNKNOWN))

CalculateStats(exps) ==
    LET rating_counts == RatingCounts(exps)
        tag_stats     == TagStats(exps)
    IN  [total           |-> Len(exps),
         success_rate    |-> Rate(SuccessCount(rating_counts), Len(exps)),
         rating_counts   |-> rating_counts,
         model_stats     |-> ModelStats(exps),
         tag_counts      |-> tag_stats.tag_counts,
         tag_experiments |-> tag_stats.tag_experiments]

NoStats == [total |-> 0, success_rate |-> Rate(0, 0), rating_counts |-> <<>>,
            model_stats |-> <<>>, tag_counts |-> <<>>, tag_experiments |-> <<>>]

(***************************************************************************)
(* update_stats.py: the renderers                                          *)
(***************************************************************************)
\* success_rates of generate_model_comparison_chart, by model
ModelComparisonRates(model_stats) ==
    [m \in DOMAIN model_stats |->
        Rate(SuccessCount(model_stats[m].ratings), model_stats[m].total)]

\* the rows of the per-model table of generate_stats_md, by model
ModelRows(model_stats) ==
    [m \in DOMAIN model_stats |->
        [total    |-> model_stats[m].total,
         exceeded |-> Count(model_stats[m].ratings, <<EXCEEDED>>),
         met      |-> Count(model_stats[m].ratings, <<MET>>),
         below    |-> Count(model_stats[m].ratings, <<BELOW>>),
         failed   |-> Count(model_stats[m].ratings, <<FAILED>>),
         success_rate |->
             Rate(SuccessCount(model_stats[m].ratings), model_stats[m].total)]]

\* "if not x: return" on a list or dictionary
IsEmpty(x) == DOMAIN x = {}

(***************************************************************************)
(* update_stats.py: the run of the script                                  *)
(***************************************************************************)
PipelineIdle ==
    /\ experiments = <<>> /\ log = <<>> /\ stats = NoStats
    /\ chartRates = <<>> /\ reportRows = <<>>
VisIdle   == data = <<>> /\ plotted = <<>>
ParseIdle == doc = EmptyDoc /\ stem = <<>> /\ record = NoRecord

\* what a run finds on the output side: nothing, the outputs of an earlier run,
\* or those of an earlier run that drew no tag chart
PriorOutputs ==
    \/ /\ imagesDir = "absent" /\ timelinePng = "absent" /\ modelPng = "absent"
       /\ tagPng = "absent" /\ statsMd = "absent"
    \/ /\ imagesDir = "old" /\ timelinePng = "old" /\ modelPng = "old"
       /\ tagPng \in {"absent", "old"} /\ statsMd = "old"

Init ==
    /\ fs \in Directories
    /\ PriorOutputs
    /\ pc = "import"
    /\ PipelineIdle /\ VisIdle /\ ParseIdle

\* line 37, run when the module is loaded: IMAGES_DIR.mkdir(exist_ok=True)
ImportModule ==
    /\ pc = "import"
    /\ imagesDir' = IF imagesDir = "absent" THEN "new" ELSE imagesDir
    /\ pc' = "collect"
    /\ UNCHANGED <<fs, timelinePng, modelPng, tagPng, statsMd, experiments, log, stats,
                   chartRates, reportRows, data, plotted, doc, stem, record>>

\* main: experiments = collect_experiments()
Collect ==
    /\ pc = "collect"
    /\ experiments' = CollectExperiments(fs).experiments
    /\ log' = CollectExperiments(fs).log
    /\ pc' = "check"
    /\ UNCHANGED <<fs, imagesDir, timelinePng, modelPng, tagPng, statsMd, stats,
                   chartRates, reportRows, data, plotted, doc, stem, record>>

\* a main that never returns early
NeverEmpty(exps) == FALSE

\* main: "if not experiments: ... return"
NoExperiments(exps) == IsEmpty(exps)

MainCheck ==
    /\ pc = "check"
    /\ pc' = IF NoExperiments(experiments) THEN "done" ELSE "calc"
    /\ UNCHANGED <<fs, imagesDir, timelinePng, modelPng, tagPng, statsMd, experiments,
                   log, stats, chartRates, reportRows, data, plotted, doc, stem, record>>

\* stats = calculate_stats(experiments)
Calculate ==
    /\ pc = "calc"
    /\ stats' = CalculateStats(experiments)
    /\ pc' = "timeline"
    /\ UNCHANGED <<fs, imagesDir, timelinePng, modelPng, tagPng, statsMd, experiments,
                   log, chartRates, reportRows, data, plotted, doc, stem, record>>

\* generate_timeline_chart(experiments)
GenerateTimelineChart ==
    /\ pc = "timeline"
    /\ timelinePng' = IF IsEmpty(experiments) THEN timelinePng ELSE "new"
    /\ pc' = "model"
    /\ UNCHANGED <<fs, imagesDir, modelPng, tagPng, statsMd, experiments, log, stats,
                   chartRates, reportRows, data, plotted, doc, stem, record>>

\* generate_model_comparison_chart(stats['model_stats'])
GenerateModelComparisonChart ==
    /\ pc = "model"
    /\ IF IsEmpty(stats.model_stats)
       THEN UNCHANGED <<modelPng, chartRates>>
       ELSE /\ chartRates' = ModelComparisonRates(stats.model_stats)
            /\ modelPng' = "new"
    /\ pc' = "tag"
    /\ UNCHANGED <<fs, imagesDir, timelinePng, tagPng, statsMd, experiments, log, stats,
                   reportRows, data, plotted, doc, stem, record>>

\* generate_tag_cloud_chart(stats['tag_counts'])
TagCloudWritten(tag_counts) == ~IsEmpty(tag_counts)

GenerateTagCloudChart ==
    /\ pc = "tag"
    /\ tagPng' = IF TagCloudWritten(stats.tag_counts) THEN "new" ELSE tagPng
    /\ pc' = "report"
    /\ UNCHANGED <<fs, imagesDir, timelinePng, modelPng, statsMd, experiments, log,
                   stats, chartRates, reportRows, data, plotted, doc, stem, record>>

\* generate_stats_md(experiments, stats)
GenerateStatsMd ==
    /\ pc = "report"
    /\ reportRows' = ModelRows(stats.model_stats)
    /\ statsMd' = "new"
    /\ pc' = "done"
    /\ UNCHANGED <<fs, imagesDir, timelinePng, modelPng, tagPng, experiments, log,
                   stats, chartRates, data, plotted, doc, stem, record>>

Next ==
    \/ ImportModule
    \/ Collect
    \/ MainCheck
    \/ Calculate
    \/ GenerateTimelineChart
    \/ GenerateModelComparisonChart
    \/ GenerateTagCloudChart
    \/ GenerateStatsMd

Spec == Init /\ [][Next]_vars

(***************************************************************************)
(* Calling calculate_stats and the renderers on any list of records        *)
(***************************************************************************)
MaxRecords == 3

\* records parse_experiment returns
RecordPool ==
    {ParseExperiment(Text(d), s) : d \in PoolDocs, s \in {Stem(Str001md), Stem(Str002md)}}

InitStats ==
    /\ experiments \in SeqsUpTo(RecordPool, MaxRecords)
    /\ pc = "calc"
    /\ fs \in {[n \in Names |-> File("absent", EmptyDoc)]}
    /\ imagesDir = "old" /\ timelinePng = "absent" /\ modelPng = "absent"
    /\ tagPng = "absent" /\ statsMd = "absent"
    /\ log = <<>> /\ stats = NoStats /\ chartRates = <<>> /\ reportRows = <<>>
    /\ VisIdle /\ ParseIdle

NextStats ==
    \/ Calculate
    \/ GenerateTimelineChart
    \/ GenerateModelComparisonChart
    \/ GenerateTagCloudChart
    \/ GenerateStatsMd

SpecStats == InitStats /\ [][NextStats]_vars

(***************************************************************************)
(* Calling parse_experiment on any document                                *)
(***************************************************************************)
InitParse ==
    /\ doc \in PlainDocs \cup TaggedDocs
    /\ stem = Stem(Str001md)
    /\ record = NoRecord
    /\ pc = "parse"
    /\ fs \in {[n \in Names |-> File("absent", EmptyDoc)]}
    /\ imagesDir = "old" /\ timelinePng = "absent" /\ modelPng = "absent"
    /\ tagPng = "absent" /\ statsMd = "absent"
    /\ PipelineIdle /\ VisIdle

Parse ==
    /\ pc = "parse"
    /\ record' = ParseExperiment(Text(doc), stem)
    /\ pc' = "parsed"
    /\ UNCHANGED <<fs, imagesDir, timelinePng, modelPng, tagPng, statsMd, experiments,
                   log, stats, chartRates, reportRows, data, plotted, doc, stem>>

SpecParse == InitParse /\ [][Parse]_vars

(***************************************************************************)
(* visualize.py                                                            *)
(***************************************************************************)
VisDateLabel   == <<"U65E5", "U4ED8", ":", " ">>
VisModelLabel  == <<"U30E2", "U30C7", "U30EB", ":", " ">>
VisRatingLabel == <<"U8A55", "U4FA1", ":", " ">>

\* \d{4}-\d{2}-\d{2} at position g
IsoDateAt(s, g) ==
    /\ g + 9 <= Len(s)
    /\ \A k \in {0, 1, 2, 3, 5, 6, 8, 9} : s[g + k] \in Digits
    /\ s[g + 4] = "-" /\ s[g + 7] = "-"

\* re.search(r'日付: (\d{4}-\d{2}-\d{2})', content)
VisDateSearch(s) ==
    LET L  == Len(VisDateLabel)
        at == {i \in 1..Len(s) : MatchAt(s, i, VisDateLabel) /\ IsoDateAt(s, i + L)}
    IN  IF at = {} THEN NoMatch
        ELSE [found |-> TRUE, group |-> SubSeq(s, Min(at) + L, Min(at) + L + 9)]

DigitVal(c) == Ord(c) - 48

RECURSIVE Number(_)
Number(ds) ==
    IF ds = <<>> THEN 0
    ELSE 10 * Number(SubSeq(ds, 1, Len(ds) - 1)) + DigitVal(ds[Len(ds)])

DaysIn(y, m) ==
    IF m \in {4, 6, 9, 11} THEN 30
    ELSE IF m # 2 THEN 31
    ELSE IF (y % 4 = 0 /\ y % 100 # 0) \/ y % 400 = 0 THEN 29
    ELSE 28

\* datetime.strptime(text, '%Y-%m-%d') on a match of the date pattern: the date
\* as <<year, month, day>>, or a ValueError
Strptime(text) ==
    LET y == Number(SubSeq(text, 1, 4))
        m == Number(SubSeq(text, 6, 7))
        d == Number(SubSeq(text, 9, 10))
    IN  IF y >= 1 /\ m \in 1..12 /\ d \in 1..DaysIn(y, m)
        THEN [ok |-> TRUE, date |-> <<y, m, d>>]
        ELSE [ok |-> FALSE, date |-> <<0, 0, 0>>]

\* the body of the loop of parse_experiments on the text of one file:
\* "raise" when strptime fails, "skip" unless all three patterns match, else
\* the entry appended to data
VisEntry(text) ==
    LET date_match   == VisDateSearch(text)
        model_match  == RestOfLineSearch(text, VisModelLabel)
        rating_match == RestOfLineSearch(text, VisRatingLabel)
    IN  IF ~(date_match.found /\ model_match.found /\ rating_match.found)
        THEN [what |-> "skip"]
        ELSE IF ~Strptime(date_match.group).ok THEN [what |-> "raise"]
        ELSE [what    |-> "entry",
              date    |-> Strptime(date_match.group).date,
              model   |-> Strip(model_match.group),
              rating  |-> Strip(rating_match.group),
              success |-> Strip(rating_match.group) \in {<<MET>>, <<EXCEEDED>>}]

\* glob.glob("experiments/*.md") on one name
GlobMd(name) ==
    /\ Len(name) >= 3
    /\ name[1] # "."
    /\ SubSeq(name, Len(name) - 2, Len(name)) = <<".", "m", "d">>

DateLeq(a, b) ==
    \/ a[1] < b[1]
    \/ a[1] = b[1] /\ a[2] < b[2]
    \/ a[1] = b[1] /\ a[2] = b[2] /\ a[3] <= b[3]

\* sorted(data, key=lambda x: x['date']): stable
RECURSIVE SortByDate(_)
SortByDate(entries) ==
    IF entries = <<>> THEN <<>>
    ELSE LET init == SortByDate(SubSeq(entries, 1, Len(entries) - 1))
             e    == entries[Len(entries)]
             keep == {k \in 1..Len(init) : DateLeq(init[k].date, e.date)}
             n    == IF keep = {} THEN 0 ELSE CHOOSE k \in keep : \A j \in keep : j <= k
         IN  SubSeq(init, 1, n) \o <<e>> \o SubSeq(init, n + 1, Len(init))

\* parse_experiments over the files in the order glob yields them: an open
\* that fails and a strptime that fails both end the script
VisParseExperiments(dir, order) ==
    LET results == [k \in 1..Len(order) |->
                       IF dir[order[k]].state = "ok"
                       THEN VisEntry(Text(dir[order[k]].doc))
                       ELSE [what |-> "raise"]]
        IsEntry(r) == r.what = "entry"
    IN  IF \E k \in 1..Len(order) : results[k].what = "raise"
        THEN [raised |-> TRUE, data |-> <<>>]
        ELSE LET found == SelectSeq(results, IsEntry)
             IN  [raised |-> FALSE,
                  data |-> SortByDate([k \in 1..Len(found) |->
                                          [date    |-> found[k].date,
                                           model   |-> found[k].model,
                                           rating  |-> found[k].rating,
                                           success |-> found[k].success]])]

\* cumulative_success of plot_timeline, each value as an exact fraction
RECURSIVE CumulativeSuccess(_)
CumulativeSuccess(d) ==
    IF d = <<>> THEN <<>>
    ELSE LET init == CumulativeSuccess(SubSeq(d, 1, Len(d) - 1))
             before == IF init = <<>> THEN 0 ELSE init[Len(init)].num \div 100
             success == before + (IF d[Len(d)].success THEN 1 ELSE 0)
         IN  Append(init, [num |-> success * 100, den |-> Len(d)])

\* success_rates of plot_model_comparison: the models with two entries or more
VisModelRates(d) ==
    LET Of(m) == {k \in 1..Len(d) : d[k].model = m}
        models == {d[k].model : k \in 1..Len(d)}
    IN  [m \in {x \in models : Cardinality(Of(x)) >= 2} |->
            [num |-> 100 * Cardinality({k \in Of(m) : d[k].success}),
             den |-> Cardinality(Of(m))]]

Perms(S) ==
    {q \in [1..Cardinality(S) -> S] : \A i, j \in 1..Cardinality(S) : q[i] = q[j] => i = j}

InitVis ==
    /\ fs \in {f \in [Names -> FileStates] : f[StrRmd] \in {File("absent", EmptyDoc),
                                                         File("ok", DocA1)}}
    /\ PriorOutputs
    /\ pc = "vis_parse"
    /\ PipelineIdle /\ VisIdle /\ ParseIdle

\* data = parse_experiments(), the files in any order
VisParse ==
    /\ pc = "vis_parse"
    /\ \E order \in Perms({n \in Names : fs[n].state # "absent" /\ GlobMd(n)}) :
           LET r == VisParseExperiments(fs, order)
           IN  /\ data' = r.data
               /\ pc' = IF r.raised THEN "vis_raised" ELSE "vis_main"
    /\ UNCHANGED <<fs, imagesDir, timelinePng, modelPng, tagPng, statsMd, experiments,
                   log, stats, chartRates, reportRows, plotted, doc, stem, record>>

\* "if not data: ... exit(1)", then os.makedirs('images', exist_ok=True)
VisMain ==
    /\ pc = "vis_main"
    /\ IF IsEmpty(data)
       THEN pc' = "vis_exit" /\ UNCHANGED imagesDir
       ELSE /\ pc' = "vis_timeline"
            /\ imagesDir' = IF imagesDir = "absent" THEN "new" ELSE imagesDir
    /\ UNCHANGED <<fs, timelinePng, modelPng, tagPng, statsMd, experiments, log, stats,
                   chartRates, reportRows, data, plotted, doc, stem, record>>

\* plot_timeline(data)
VisPlotTimeline ==
    /\ pc = "vis_timeline"
    /\ plotted' = CumulativeSuccess(data)
    /\ timelinePng' = "new"
    /\ pc' = "vis_model"
    /\ UNCHANGED <<fs, imagesDir, modelPng, tagPng, statsMd, experiments, log, stats,
                   chartRates, reportRows, data, doc, stem, record>>

\* plot_model_comparison(data)
VisPlotModelComparison ==
    /\ pc = "vis_model"
    /\ chartRates' = VisModelRates(data)
    /\ modelPng' = "new"
    /\ pc' = "vis_done"
    /\ UNCHANGED <<fs, imagesDir, timelinePng, tagPng, statsMd, experiments, log, stats,
                   reportRows, data, plotted, doc, stem, record>>

NextVis ==
    \/ VisParse
    \/ VisMain
    \/ VisPlotTimeline
    \/ VisPlotModelComparison

SpecVis == InitVis /\ [][NextVis]_vars

(***************************************************************************)
(* Properties of calculate_stats and the renderers (under SpecStats)       *)
(***************************************************************************)
RECURSIVE SumOver(_, _)
SumOver(S, f) ==
    IF S = {} THEN 0
    ELSE LET x == CHOOSE y \in S : TRUE IN f[x] + SumOver(S \ {x}, f)

CanonicalRatings == {<<EXCEEDED>>, <<MET>>, <<BELOW>>, <<FAILED>>}
RatingBuckets    == CanonicalRatings \cup {UNKNOWN}

\* the sum of a Counter over the four ratings and the "unknown" bucket
BucketSum(c) == SumOver(RatingBuckets, [r \in RatingBuckets |-> Count(c, r)])

Calculated == pc \in {"timeline", "model", "tag", "report", "done"}

\* C1: the counts of the four canonical ratings and of the "unknown" bucket
\* sum to the number of records, globally and within every model of
\* model_stats, and the totals of the models sum to the global total.
C1_CountsSumToTotal ==
    Calculated =>
        /\ stats.total = Len(experiments)
        /\ BucketSum(stats.rating_counts) = stats.total
        /\ \A m \in DOMAIN stats.model_stats :
               BucketSum(stats.model_stats[m].ratings) = stats.model_stats[m].total
        /\ SumOver(DOMAIN stats.model_stats,
                   [m \in DOMAIN stats.model_stats |-> stats.model_stats[m].total])
               = stats.total

C1_Witness ==
    /\ Calculated
    /\ stats.total = 3
    /\ UNKNOWN \in DOMAIN stats.rating_counts
    /\ UNKNOWN \in DOMAIN stats.model_stats
    /\ \E m \in DOMAIN stats.model_stats :
           m # UNKNOWN /\ stats.model_stats[m].total = 2

\* every occurrence of a tag in the records, in processing order, as a
\* <<tag, record id>> pair
Occurrences(exps) ==
    Concat([i \in 1..Len(exps) |->
               [k \in 1..Len(exps[i].tags) |-> <<exps[i].tags[k], exps[i].id>>]])

\* the ids of the occurrences of one tag
References(exps, tag) ==
    LET IsTag(p) == p[1] = tag
        hits == SelectSeq(Occurrences(exps), IsTag)
    IN  [k \in 1..Len(hits) |-> hits[k][2]]

\* C2: tag_experiments[tag] holds one record id per occurrence of the tag, in
\* processing order and without de-duplication, so its length is
\* tag_counts[tag].
C2_TagReferences ==
    Calculated =>
        /\ DOMAIN stats.tag_experiments = DOMAIN stats.tag_counts
        /\ DOMAIN stats.tag_experiments =
               {Occurrences(experiments)[k][1] : k \in 1..Len(Occurrences(experiments))}
        /\ \A tag \in DOMAIN stats.tag_experiments :
               /\ stats.tag_experiments[tag] = References(experiments, tag)
               /\ Len(stats.tag_experiments[tag]) = stats.tag_counts[tag]

C2_Witness ==
    /\ Calculated
    /\ \E tag \in DOMAIN stats.tag_experiments :
           LET refs == stats.tag_experiments[tag]
           IN  /\ Len(refs) = 3
               /\ refs[1] # refs[2]
               /\ refs[2] = refs[3]
               /\ Cardinality({i \in 1..Len(experiments) : experiments[i].id = refs[2]}) = 1

\* the records of exps that count as a success
Successes(exps) ==
    {i \in 1..Len(exps) : Get(exps[i], "rating", UNKNOWN) \in {<<EXCEEDED>>, <<MET>>}}

OfModel(exps, m) == {i \in 1..Len(exps) : Get(exps[i], "model", UNKNOWN) = m}

\* the fraction r is successes / total x 100 and lies in [0, 100]; it is zero
\* when total is zero
IsSuccessRate(r, successes, total) ==
    /\ r.den > 0
    /\ 0 <= r.num /\ r.num <= 100 * r.den
    /\ IF total = 0 THEN r.num = 0
       ELSE r.num * total = 100 * successes * r.den

\* C3: the success rate is successes / total x 100, lies in [0, 100] and is 0
\* for an empty list; so is every per-model rate the chart and the report
\* compute from model_stats.
C3_SuccessRate ==
    /\ Calculated =>
           IsSuccessRate(stats.success_rate,
                         Cardinality(Successes(experiments)), Len(experiments))
    /\ pc \in {"tag", "report", "done"} =>
           /\ DOMAIN chartRates =
                  {Get(experiments[i], "model", UNKNOWN) : i \in 1..Len(experiments)}
           /\ \A m \in DOMAIN chartRates :
                  IsSuccessRate(chartRates[m],
                                Cardinality(Successes(experiments)
                                            \cap OfModel(experiments, m)),
                                Cardinality(OfModel(experiments, m)))
    /\ pc = "done" =>
           /\ DOMAIN reportRows = DOMAIN chartRates
           /\ \A m \in DOMAIN reportRows :
                  IsSuccessRate(reportRows[m].success_rate,
                                Cardinality(Successes(experiments)
                                            \cap OfModel(experiments, m)),
                                Cardinality(OfModel(experiments, m)))

C3_Witness ==
    /\ pc = "done"
    /\ Len(experiments) = 3
    /\ stats.success_rate.num * 3 = 200 * stats.success_rate.den
    /\ \E m \in DOMAIN reportRows :
           /\ reportRows[m].total = 2
           /\ reportRows[m].success_rate.num = 50 * reportRows[m].success_rate.den
           /\ chartRates[m] = reportRows[m].success_rate

(***************************************************************************)
(* Properties of the run of update_stats.py (under Spec)                   *)
(***************************************************************************)
\* a < b in lexicographic order of code points
LexLess(a, b) ==
    \E k \in 1..Len(b) :
        /\ k - 1 <= Len(a)
        /\ \A j \in 1..(k - 1) : a[j] = b[j]
        /\ (k > Len(a) \/ Ord(a[k]) < Ord(b[k]))

\* the names of S in increasing order
Increasing(S) ==
    CHOOSE q \in [1..Cardinality(S) -> S] :
        \A i, j \in 1..Cardinality(S) : i < j => LexLess(q[i], q[j])

\* the name begins with a digit and ends in ".md"
IsExperimentName(n) ==
    /\ n # <<>> /\ n[1] \in Digits
    /\ Len(n) >= 3 /\ n[Len(n) - 2] = "." /\ n[Len(n) - 1] = "m" /\ n[Len(n)] = "d"

Readable == {n \in Names : IsExperimentName(n) /\ fs[n].state = "ok"}
Failing  == {n \in Names : IsExperimentName(n) /\ fs[n].state = "unreadable"}

\* C4: collect_experiments returns the records of the files that can be read,
\* in sorted order of file name, whatever files fail; each failing file is
\* reported and the files after it are still processed.
C4_CollectSkipsFailures ==
    pc = "check" =>
        LET names == Increasing(Readable)
        IN  /\ experiments =
                   [k \in 1..Cardinality(Readable) |->
                       ParseExperiment(Text(fs[names[k]].doc), Stem(names[k]))]
            /\ log = Increasing(Failing)

C4_Witness ==
    /\ pc = "check"
    /\ Len(experiments) = 2
    /\ \E f \in Failing : \E g, h \in Readable : LexLess(g, f) /\ LexLess(f, h)

Written == {x \in {"imagesDir", "timeline", "model", "tag", "stats"} :
               CASE x = "imagesDir" -> imagesDir = "new"
                 [] x = "timeline"  -> timelinePng = "new"
                 [] x = "model"     -> modelPng = "new"
                 [] x = "tag"       -> tagPng = "new"
                 [] x = "stats"     -> statsMd = "new"}

\* C5 as claimed: a run that collects no record writes nothing at all on the
\* output side.
C5_NothingWritten ==
    (pc = "done" /\ IsEmpty(experiments)) => Written = {}

\* C5: a run that collects no record ends without creating or modifying the
\* report or any of the three images; the one thing it may write is the images
\* directory, created when it does not exist.
C5_NoReportNoImages ==
    (pc = "done" /\ IsEmpty(experiments)) =>
        /\ Written \subseteq {"imagesDir"}
        /\ imagesDir # "absent"

C5_Witness ==
    /\ pc = "done"
    /\ IsEmpty(experiments)
    /\ Failing # {}
    /\ imagesDir = "new"

\* C6 as claimed: a completed run that collected a record has written each of
\* the three images anew.
C6_AllImagesRegenerated ==
    (pc = "done" /\ ~IsEmpty(experiments)) =>
        /\ timelinePng = "new"
        /\ modelPng = "new"
        /\ tagPng = "new"

(***************************************************************************)
(* Properties of parse_experiment (under SpecParse)                        *)
(***************************************************************************)
\* the lines of a document, the tag line left out
DocLines(d) == d.pre \o d.post

\* the first of the lines at the given places, or a line of kind "none" if
\* there is no such place
FirstLine(d, at) == IF at = {} THEN Line("none", 0, <<>>) ELSE DocLines(d)[Min(at)]

\* where the bolded rating markers of a document are
RatingMarkers(d) == {k \in 1..Len(DocLines(d)) : DocLines(d)[k].kind = "rating"}

\* C7: the rating of a record is absent or one of the four canonical glyphs,
\* and a document whose first bolded rating marker holds the legacy glyph is
\* stored with the canonical "met" glyph.
C7_RatingCanonical ==
    pc = "parsed" =>
        /\ "rating" \in DOMAIN record => record.rating \in CanonicalRatings
        /\ FirstLine(doc, RatingMarkers(doc)).val = <<LEGACY>> =>
               "rating" \in DOMAIN record /\ record.rating = <<MET>>

C7_Witness ==
    /\ pc = "parsed"
    /\ FirstLine(doc, RatingMarkers(doc)).val = <<LEGACY>>
    /\ Len(doc.pre) = 3
    /\ doc.pre[3].val = <<FAILED>>

\* C8: whatever forms the tokens of a tag line are written in, the tags are
\* the bare tokens in their order of appearance, duplicates kept.
C8_TagForms ==
    (pc = "parsed" /\ doc.tagged) =>
        record.tags = [k \in 1..Len(doc.items) |-> doc.items[k].tok]

C8_Witness ==
    /\ pc = "parsed"
    /\ doc.tagged
    /\ Len(doc.items) = 2
    /\ doc.items[1].tok = doc.items[2].tok
    /\ doc.items[1].form = "right"
    /\ doc.items[2].form = "both"
    /\ doc.items[2].sep = <<>>
    /\ doc.post # <<>>

\* a title line the title pattern takes: something stands between the label
\* and the colon
Titles(d) ==
    {k \in 1..Len(DocLines(d)) :
        LET l == DocLines(d)[k] IN l.kind = "title" /\ (l.pad > 0 \/ l.val # <<>>)}

Fields(d) == {k \in 1..Len(DocLines(d)) : DocLines(d)[k].kind \in {"date", "model", "rating"}}

Present == {n \in Names : fs[n].state # "absent" /\ GlobMd(n)}

\* the document is written in the format parse_experiment reads: a date line,
\* a model line and a bolded rating marker holding a glyph of the pattern
InFormat(d) ==
    /\ \E k \in 1..Len(d.pre) : d.pre[k].kind = "date"
    /\ \E k \in 1..Len(d.pre) : d.pre[k].kind = "model"
    /\ \E k \in 1..Len(d.pre) : d.pre[k].kind = "rating" /\ d.pre[k].val[1] \in RatingClass

\* the record update_stats.py makes of a file
RecordOf(n) == ParseExperiment(Text(fs[n].doc), Stem(n))

\* update_stats.py counts the file as a success
CountsAsSuccess(n) == Get(RecordOf(n), "rating", UNKNOWN) \in {<<EXCEEDED>>, <<MET>>}

\* the orders of the files that are chronological
Chronological ==
    {q \in Perms(Present) :
        \A i, j \in 1..Len(q) : i < j => ~LexLess(RecordOf(q[j]).date, RecordOf(q[i]).date)}

\* C10 as claimed: for documents in the format of parse_experiment, the k-th
\* plotted value is 100 x (successes among the first k records in
\* chronological order) / k, a success being what update_stats.py counts as one.
C10_CumulativeSuccess ==
    (pc \in {"vis_model", "vis_done"}
        /\ \A n \in Present : fs[n].state = "ok" /\ InFormat(fs[n].doc)) =>
        \E q \in Chronological :
            /\ Len(plotted) = Len(q)
            /\ \A k \in 1..Len(q) :
                   plotted[k].num * k =
                       100 * Cardinality({i \in 1..k : CountsAsSuccess(q[i])}) * plotted[k].den

====
